---- MODULE Spec2Model ----
(***************************************************************************)
(* State-machine model of src/app.py: the Streamlit record-matching and    *)
(* data-entry tool over one Google Sheet.                                   *)
(*                                                                          *)
(* The sheet is the pair (header, store): header is row 1, store is the    *)
(* sequence of data rows, store[i] being sheet row i + 1.  A row is a      *)
(* function from column name to cell text.  The session is Streamlit's     *)
(* st.session_state.  One action is one user interaction: the script run   *)
(* that handles the widget event and, when that run calls st.rerun(), the  *)
(* plain run that follows it.                                               *)
(***************************************************************************)
EXTENDS Integers, Sequences, FiniteSets, TLC

VARIABLES header, store, uploaded, editing_row_number, editing_defaults,
          postsave_pending, postsave_mode, postsave_row_number,
          postsave_sl_no, screen, matched_row, shown_record, writes, error

vars == <<header, store, uploaded, editing_row_number, editing_defaults,
          postsave_pending, postsave_mode, postsave_row_number,
          postsave_sl_no, screen, matched_row, shown_record, writes, error>>

(***************************************************************************)
(* Bounds of the model.                                                     *)
(***************************************************************************)
\* The store never grows beyond MaxRows data rows (guard of SubmitCreate).
MaxRows == 2
\* The sheet found at start holds at most MaxLegacyRows data rows.
MaxLegacyRows == 1

(***************************************************************************)
(* Configuration (src/app.py lines 15-29).                                  *)
(***************************************************************************)
HEADERS ==
    <<"SL NO", "ARCHITECTURE OF THE SKULL", "OCCIPITAL CONDYLES",
      "MASTOID PROCESS", "OCCIPITAL PROTUBERANCE", "PALATAL WIDTH",
      "AP", "TD", "AP/TD", "FILE NAME", "SHAPE", "IMAGE HASH KEY">>

Cols == {HEADERS[i] : i \in DOMAIN HEADERS}

\* Python's None, and a present optional value.
NONE == <<>>
Some(v) == <<v>>

(***************************************************************************)
(* Text.  Cell texts are TLA+ strings; the conversions the code applies    *)
(* to them are given on the texts the model draws from.                     *)
(***************************************************************************)
\* str.strip(): leading and trailing whitespace removed.
Strip(s) ==
    CASE s = " a.png " -> "a.png"
      [] s = " "       -> ""
      [] s = " 10 "    -> "10"
      [] s = " FFE0 "  -> "FFE0"
      [] OTHER         -> s

\* str.lower().
Lower(s) ==
    CASE s = "A.PNG"   -> "a.png"
      [] s = "FFE0"    -> "ffe0"
      [] s = " FFE0 "  -> " ffe0 "
      [] OTHER         -> s

\* The numbers whose decimal text the model can parse.
NumRange == 0 .. 20

\* float(s): Some(value) or NONE for ValueError.  float() ignores
\* surrounding whitespace and rejects the empty and the blank text.
ParseFloat(s) ==
    LET t == Strip(s)
    IN  IF \E n \in NumRange : ToString(n) = t
        THEN Some(CHOOSE n \in NumRange : ToString(n) = t)
        ELSE NONE

\* str(a / b) for floats a, b with b # 0, to one decimal digit (exact on
\* the values the model draws: 10/2 = "5.0", 10/4 = "2.5").
FloatDivStr(a, b) ==
    LET q == (10 * a) \div b
    IN  ToString(q \div 10) \o "." \o ToString(q % 10)

\* dict.get(key, "").
Get(d, k) == IF k \in DOMAIN d THEN d[k] ELSE ""

Min(S) == CHOOSE x \in S : \A y \in S : x <= y
Max(S) == CHOOSE x \in S : \A y \in S : x >= y

(***************************************************************************)
(* Image / hash helpers.                                                    *)
(***************************************************************************)
Images == {"img1", "img2"}

\* compute_image_hash: str(imagehash.average_hash(img)), a lowercase hex
\* text that is a function of the image content.
compute_image_hash(file_bytes) ==
    CASE file_bytes = "img1" -> "ffe0"
      [] file_bytes = "img2" -> "00ff"

(***************************************************************************)
(* Business logic.                                                          *)
(***************************************************************************)
\* pd.to_numeric(x, errors="coerce"): Some(n) or NONE for NaN.
to_numeric(s) == ParseFloat(s)

\* next_sl_no: max of the numeric SL NO cells plus one.
next_sl_no_count(df) ==
    IF df = <<>> THEN 1
    ELSE LET nums == {to_numeric(df[i]["SL NO"])[1] :
                         i \in {j \in DOMAIN df : to_numeric(df[j]["SL NO"]) # NONE}}
         IN  IF nums # {} THEN Cardinality(nums) + 1 ELSE 1

next_sl_no(df) ==
    IF df = <<>> THEN 1
    ELSE LET nums == {to_numeric(df[i]["SL NO"])[1] :
                         i \in {j \in DOMAIN df : to_numeric(df[j]["SL NO"]) # NONE}}
         IN  IF nums # {} THEN Max(nums) + 1 ELSE 1

\* find_by_filename: the index in df of the first row whose FILE NAME
\* matches, 0 for None.  The row's _ROW_NUMBER is index + 1.
find_by_filename_last(df, filename) ==
    LET m == {i \in DOMAIN df :
                 Lower(Strip(df[i]["FILE NAME"])) = Lower(Strip(filename))}
    IN  IF m # {} THEN Max(m) ELSE 0

find_by_filename(df, filename) ==
    LET m == {i \in DOMAIN df :
                 Lower(Strip(df[i]["FILE NAME"])) = Lower(Strip(filename))}
    IN  IF m # {} THEN Min(m) ELSE 0

find_by_hash_exact(df, img_hash) ==
    LET m == {i \in DOMAIN df : df[i]["IMAGE HASH KEY"] = img_hash}
    IN  IF m # {} THEN Min(m) ELSE 0

find_by_hash(df, img_hash) ==
    LET m == {i \in DOMAIN df :
                 Lower(Strip(df[i]["IMAGE HASH KEY"])) = Lower(Strip(img_hash))}
    IN  IF m # {} THEN Min(m) ELSE 0

\* _ROW_NUMBER of df row i: range(2, 2 + len(df)).
RowNumber(i) == i + 1

\* The AP/TD text of update_row (AP and TD stripped first).
update_row_ratio_keep(row_dict) == Get(row_dict, "AP/TD")

update_row_ratio(row_dict) ==
    LET ap == Strip(Get(row_dict, "AP"))
        td == Strip(Get(row_dict, "TD"))
    IN  IF ap # "" /\ td # ""
        THEN IF ParseFloat(ap) # NONE /\ ParseFloat(td) # NONE
             THEN IF ParseFloat(td)[1] # 0
                  THEN FloatDivStr(ParseFloat(ap)[1], ParseFloat(td)[1])
                  ELSE ""
             ELSE ""
        ELSE ""

\* The AP/TD text of append_row (AP and TD as given).
append_row_ratio_no_zero_guard(row_dict) ==
    LET ap == Get(row_dict, "AP")
        td == Get(row_dict, "TD")
    IN  IF ap # "" /\ td # ""
        THEN IF ParseFloat(ap) # NONE /\ ParseFloat(td) # NONE
             THEN IF ParseFloat(td)[1] # 0
                  THEN FloatDivStr(ParseFloat(ap)[1], ParseFloat(td)[1])
                  ELSE "inf"
             ELSE ""
        ELSE ""

append_row_ratio(row_dict) ==
    LET ap == Get(row_dict, "AP")
        td == Get(row_dict, "TD")
    IN  IF ap # "" /\ td # ""
        THEN IF ParseFloat(ap) # NONE /\ ParseFloat(td) # NONE
             THEN IF ParseFloat(td)[1] # 0
                  THEN FloatDivStr(ParseFloat(ap)[1], ParseFloat(td)[1])
                  ELSE ""
             ELSE ""
        ELSE ""

\* [row_dict.get(col, "") for col in HEADERS] with AP/TD set to ratio.
RowValues(row_dict, ratio) ==
    [c \in Cols |-> IF c = "AP/TD" THEN ratio ELSE Get(row_dict, c)]

\* update_row: the sheet's data rows after the range update of row_number.
update_row(ws, row_number, row_dict) ==
    IF row_number - 1 \in DOMAIN ws
    THEN [ws EXCEPT ![row_number - 1] = RowValues(row_dict, update_row_ratio(row_dict))]
    ELSE ws

\* append_row: the sheet's data rows after ws.append_row(values).
append_row(ws, row_dict) ==
    Append(ws, RowValues(row_dict, append_row_ratio(row_dict)))

(***************************************************************************)
(* The script run.  A run works on a record s holding the sheet and the    *)
(* session; it yields [s, rerun]: the record after the run and whether the *)
(* run ended in st.rerun().  Each step of a run is an operator that takes  *)
(* the values computed so far as parameters.                                *)
(***************************************************************************)
\* The widget event a run handles: a button click or a form submission
\* (key is the form's key, form its field values).
NoEvent == [kind |-> "none", key |-> NONE, form |-> NONE]

\* What the run leaves on the page: the view, the row reference it carries
\* and the record in the table.
Show(s, view, row_number, record) ==
    [s EXCEPT !.screen = view, !.matched_row = row_number, !.shown_record = record]

\* The log of the row writes of one interaction: the call, the sheet row
\* and the values that reached the sheet.
LogWrite(s, op, row_number) ==
    [s EXCEPT !.writes =
        Append(@, [op |-> op, row |-> row_number,
                   values |-> s.store[row_number - 1]])]

\* ws.resize(1) drops every row below the header.
ensure_spreadsheet_and_headers(s) ==
    IF s.header # HEADERS
    THEN [s EXCEPT !.store = <<>>, !.header = HEADERS]
    ELSE s

\* read_df: repairs the header row in place; the data frame is s.store,
\* row i carrying _ROW_NUMBER = RowNumber(i).
read_df(s) ==
    IF s.header # HEADERS THEN [s EXCEPT !.header = HEADERS] ELSE s

\* df["SL NO"].astype(int) raises when a cell is not an integer text.
AllInt(df) == \A i \in DOMAIN df : ParseFloat(df[i]["SL NO"]) # NONE

\* Lines 292-299: the rows whose SL NO is the created record's.
created_mask(df_latest, sl) ==
    IF AllInt(df_latest)
    THEN {i \in DOMAIN df_latest : ParseFloat(df_latest[i]["SL NO"])[1] = sl}
    ELSE {i \in DOMAIN df_latest : df_latest[i]["SL NO"] = ToString(sl)}

First(m) == IF m # {} THEN Min(m) ELSE 0

\* The record the post-save view fetches: its index in df_latest, 0 for
\* None, -1 when the lookup raises (df_latest is empty and has no
\* _ROW_NUMBER column).
postsave_record(s, df_latest) ==
    IF s.postsave_mode = Some("updated") /\ s.postsave_row_number # NONE
    THEN IF df_latest = <<>> THEN -1
         ELSE IF s.postsave_row_number[1] - 1 \in DOMAIN df_latest
              THEN s.postsave_row_number[1] - 1 ELSE 0
    ELSE IF s.postsave_mode = Some("created") /\ s.postsave_sl_no # NONE
    THEN First(created_mask(df_latest, s.postsave_sl_no[1]))
    ELSE 0

ClearPostsave_pending_only(s) ==
    [s EXCEPT !.postsave_pending = FALSE]

ClearPostsave(s) ==
    [s EXCEPT !.postsave_pending = FALSE, !.postsave_mode = NONE,
              !.postsave_row_number = NONE, !.postsave_sl_no = NONE]

\* Lines 301-328, with rec the fetched record: [s, shown, rerun].
postsave_view(s, rec, ev) ==
    IF rec = -1
    THEN [s |-> Show(s, "exception", NONE, NONE), shown |-> TRUE, rerun |-> FALSE]
    ELSE IF rec = 0
    THEN [s |-> ClearPostsave(s), shown |-> FALSE, rerun |-> FALSE]
    ELSE IF ev.kind = "ok"
    THEN [s |-> ClearPostsave(s), shown |-> TRUE, rerun |-> TRUE]
    ELSE [s |-> Show(s, "postsave", Some(RowNumber(rec)), Some(s.store[rec])),
          shown |-> TRUE, rerun |-> FALSE]

postsave_fetch(s, ev) == postsave_view(s, postsave_record(s, s.store), ev)

\* show_postsave_block: [s, shown (its return value), rerun].
show_postsave_block(s0, ev) ==
    IF ~s0.postsave_pending
    THEN [s |-> s0, shown |-> FALSE, rerun |-> FALSE]
    ELSE postsave_fetch(read_df(s0), ev)

\* Line 234: the submission is refused.
validation_fails_ap_only(ap, td) == ap # "" /\ td = ""

validation_fails(ap, td) ==
    (ap # "" /\ td = "") \/ (td # "" /\ ap = "")

\* Lines 238-251: row_dict of a submission; sl_no is str(sl_no), file_name
\* and image_hash_key the values of the two widgets.
form_row_dict(sl_no, in, file_name, image_hash_key, defaults) ==
    [c \in Cols |->
        CASE c = "SL NO" -> sl_no
          [] c = "ARCHITECTURE OF THE SKULL" -> in.architecture
          [] c = "OCCIPITAL CONDYLES" -> in.occipital_condyles
          [] c = "MASTOID PROCESS" -> in.mastoid_process
          [] c = "OCCIPITAL PROTUBERANCE" -> in.occipital_protuberance
          [] c = "PALATAL WIDTH" -> in.palatal_width
          [] c = "AP" -> in.ap
          [] c = "TD" -> in.td
          [] c = "AP/TD" -> ""
          [] c = "FILE NAME" ->
                IF file_name # "" THEN file_name ELSE Get(defaults, "FILE NAME")
          [] c = "SHAPE" -> in.shape
          [] c = "IMAGE HASH KEY" -> image_hash_key]

\* Lines 255-262: the session after a create, s holding the appended row.
mark_created(s, sl_no) ==
    [s |-> [LogWrite(s, "append_row", Len(s.store) + 1) EXCEPT
                !.postsave_pending = TRUE,
                !.postsave_mode = Some("created"),
                !.postsave_sl_no = Some(sl_no),
                !.postsave_row_number = NONE,
                !.editing_row_number = NONE],
     rerun |-> TRUE]

\* Lines 268-275: the session after an edit, s holding the updated row.
mark_updated(s, row_number) ==
    [s |-> [LogWrite(s, "update_row", row_number) EXCEPT
                !.postsave_pending = TRUE,
                !.postsave_mode = Some("updated"),
                !.postsave_row_number = Some(row_number),
                !.postsave_sl_no = NONE,
                !.editing_row_number = NONE],
     rerun |-> TRUE]

\* Lines 253-275: the save of row_dict.
form_save(s, is_create, sl_no, row_number, row_dict) ==
    IF is_create
    THEN mark_created([s EXCEPT !.store = append_row(@, row_dict)], sl_no)
    ELSE IF row_number = NONE
    THEN [s |-> [s EXCEPT !.error = "internal"], rerun |-> FALSE]
    ELSE mark_updated([s EXCEPT !.store = update_row(@, row_number[1], row_dict)],
                      row_number[1])

\* Lines 230-275: a submitted form with field values in.
form_submitted(s, is_create, sl_no, defaults, row_number, in) ==
    IF validation_fails(in.ap, in.td)
    THEN [s |-> [s EXCEPT !.error = "validation"], rerun |-> FALSE]
    ELSE form_save(s, is_create, sl_no, row_number,
                   form_row_dict(IF is_create THEN ToString(sl_no)
                                 ELSE Get(defaults, "SL NO"),
                                 in,
                                 IF is_create THEN Get(defaults, "FILE NAME")
                                 ELSE in.file_name,
                                 Get(defaults, "IMAGE HASH KEY"),
                                 defaults))

\* render_create_or_edit_form: [s, rerun].  In create mode sl_no is
\* next_sl_no(df); in edit mode the SL NO text comes from defaults.
render_create_or_edit_form(s, mode, df, defaults, row_number, ev) ==
    IF ev.kind = "submit" /\ ev.key = <<mode, row_number>>
    THEN form_submitted(Show(s, mode, row_number, NONE), mode = "create",
                        IF mode = "create" THEN next_sl_no(df) ELSE 0,
                        defaults, row_number, ev.form)
    ELSE [s |-> Show(s, mode, row_number, NONE), rerun |-> FALSE]

\* Lines 381 and 457: the defaults of the create form.
create_defaults(file_name, img_hash) ==
    [c \in {"FILE NAME", "IMAGE HASH KEY"} |->
        IF c = "FILE NAME" THEN file_name ELSE img_hash]

\* Line 408: the name-matched record has no hash saved.
needs_backfill_always(row_by_name) == TRUE

needs_backfill(row_by_name) ==
    Strip(Get(row_by_name, "IMAGE HASH KEY")) = ""

\* Lines 418-432 and 440-453: the matched record on the page with its Edit
\* button.
show_match(s, view, row_number, record, ev) ==
    IF ev.kind = "edit"
    THEN [s |-> [s EXCEPT !.editing_row_number = Some(row_number),
                          !.editing_defaults = record],
          rerun |-> TRUE]
    ELSE [s |-> Show(s, view, Some(row_number), Some(record)), rerun |-> FALSE]

\* Lines 415-416: df re-read and the record found again by name.
reread_by_name(s, file_name) ==
    read_df(s).store[find_by_filename(read_df(s).store, file_name)]

\* Lines 409-413: the matched row written back with the computed hash.
backfill(s, row_number, row_by_name, img_hash) ==
    LogWrite([s EXCEPT !.store =
                 update_row(@, row_number,
                            [row_by_name EXCEPT !["IMAGE HASH KEY"] = img_hash])],
             "backfill", row_number)

\* Lines 403-432, i the index of the record matched by name.
name_match(s, df, i, file_name, img_hash, ev) ==
    IF needs_backfill(df[i])
    THEN show_match(backfill(s, RowNumber(i), df[i], img_hash), "matched_name",
                    RowNumber(i),
                    reread_by_name(backfill(s, RowNumber(i), df[i], img_hash), file_name),
                    ev)
    ELSE show_match(s, "matched_name", RowNumber(i), df[i], ev)

\* Lines 401-458 with the two lookups done: i by FILE NAME, h by IMAGE
\* HASH KEY (used only when i is None).
resolve_with(s, df, i, h, file_name, img_hash, ev) ==
    IF i # 0 THEN name_match(s, df, i, file_name, img_hash, ev)
    ELSE IF h # 0 THEN show_match(s, "matched_hash", RowNumber(h), df[h], ev)
    ELSE render_create_or_edit_form(s, "create", df,
                                    create_defaults(file_name, img_hash), NONE, ev)

\* main, lines 401-458: resolution of the upload against a non-empty df
\* outside editing.
resolve(s, df, file_name, img_hash, ev) ==
    resolve_with(s, df, find_by_filename(df, file_name), find_by_hash(df, img_hash),
                 file_name, img_hash, ev)

\* Lines 395-398: the Cancel button below the edit form; f is the form's
\* outcome.
cancel_button(f, ev) ==
    IF ~f.rerun /\ ev.kind = "cancel"
    THEN [s |-> [f.s EXCEPT !.editing_row_number = NONE, !.editing_defaults = <<>>],
          rerun |-> TRUE]
    ELSE f

\* main, lines 374-458: an image is uploaded.
main_uploaded(s, df, file_name, img_hash, ev) ==
    IF df = <<>>
    THEN render_create_or_edit_form(s, "create", df,
                                    create_defaults(file_name, img_hash), NONE, ev)
    ELSE IF s.editing_row_number # NONE
    THEN cancel_button(render_create_or_edit_form(s, "edit", df, s.editing_defaults,
                                                  s.editing_row_number, ev), ev)
    ELSE resolve(s, df, file_name, img_hash, ev)

\* main, lines 354-376: the uploader and the persisted image.
main_uploader(s, df, ev) ==
    IF s.uploaded = NONE
    THEN [s |-> Show(s, "upload_prompt", NONE, NONE), rerun |-> FALSE]
    ELSE main_uploaded(s, df, s.uploaded[1].name,
                       compute_image_hash(s.uploaded[1].bytes), ev)

\* main, lines 350-352, p the outcome of show_postsave_block.
main_postsave(df, p, ev) ==
    IF p.shown \/ p.rerun THEN [s |-> p.s, rerun |-> p.rerun]
    ELSE main_uploader(p.s, df, ev)

main_synced(s, ev) == main_postsave(s.store, show_postsave_block(s, ev), ev)

\* main: one run of the script on s with event ev.  [s, rerun].
main(s, ev) == main_synced(read_df(ensure_spreadsheet_and_headers(s)), ev)

\* After a run that ended in st.rerun(), the plain run.
Rerun(r) == IF r.rerun THEN main(r.s, NoEvent).s ELSE r.s

\* The run that handles ev and the run st.rerun() starts.
Run(s, ev) == Rerun(main(s, ev))

(***************************************************************************)
(* The state machine.                                                       *)
(***************************************************************************)
\* The state at the start of an interaction: nothing written or reported yet.
Cur ==
    [header |-> header, store |-> store, uploaded |-> uploaded,
     editing_row_number |-> editing_row_number,
     editing_defaults |-> editing_defaults,
     postsave_pending |-> postsave_pending, postsave_mode |-> postsave_mode,
     postsave_row_number |-> postsave_row_number,
     postsave_sl_no |-> postsave_sl_no,
     screen |-> screen, matched_row |-> matched_row,
     shown_record |-> shown_record, writes |-> <<>>, error |-> ""]

Commit(s) ==
    /\ header' = s.header
    /\ store' = s.store
    /\ uploaded' = s.uploaded
    /\ editing_row_number' = s.editing_row_number
    /\ editing_defaults' = s.editing_defaults
    /\ postsave_pending' = s.postsave_pending
    /\ postsave_mode' = s.postsave_mode
    /\ postsave_row_number' = s.postsave_row_number
    /\ postsave_sl_no' = s.postsave_sl_no
    /\ screen' = s.screen
    /\ matched_row' = s.matched_row
    /\ shown_record' = s.shown_record
    /\ writes' = s.writes
    /\ error' = s.error

\* Texts of the sheet found at start and of the user's input.
UploadNames  == {"A.PNG", "b.png"}
LegacyNames  == {" a.png "}
LegacyHashes == {"", " ", " FFE0 "}
LegacySlNos  == {"3", ""}
LegacyRatios == {<<"", "", "">>, <<"10", "2", "5">>}
ArchInputs   == {"rugged"}
APTDInputs   == {<<"", "">>, <<"10", "">>, <<"", "2">>, <<" 10 ", "4">>,
                 <<"10", "0">>, <<"abc", "2">>}
ShapeInputs  == {"Oval"}
NameInputs   == {"", "b.png"}

LegacyRows ==
    {[c \in Cols |->
        CASE c = "SL NO" -> sl
          [] c = "AP" -> r[1]
          [] c = "TD" -> r[2]
          [] c = "AP/TD" -> r[3]
          [] c = "FILE NAME" -> n
          [] c = "SHAPE" -> "Round"
          [] c = "IMAGE HASH KEY" -> h
          [] OTHER -> ""] :
        sl \in LegacySlNos, r \in LegacyRatios, n \in LegacyNames, h \in LegacyHashes}

RECURSIVE SeqsUpTo(_, _)
SeqsUpTo(S, n) ==
    IF n = 0 THEN {<<>>}
    ELSE LET shorter == SeqsUpTo(S, n - 1)
         IN  shorter \cup {Append(q, x) : q \in shorter, x \in S}

DistinctSlNo(df) ==
    \A i, j \in DOMAIN df : i # j => df[i]["SL NO"] # df[j]["SL NO"]

LegacyStores == {q \in SeqsUpTo(LegacyRows, MaxLegacyRows) : DistinctSlNo(q)}

\* Lines 48-59 and the first run of main: nothing uploaded.
Init ==
    /\ header = HEADERS
    /\ store \in LegacyStores
    /\ uploaded = NONE
    /\ editing_row_number = NONE
    /\ editing_defaults = <<>>
    /\ postsave_pending = FALSE
    /\ postsave_mode = NONE
    /\ postsave_row_number = NONE
    /\ postsave_sl_no = NONE
    /\ screen = "upload_prompt"
    /\ matched_row = NONE
    /\ shown_record = NONE
    /\ writes = <<>>
    /\ error = ""

\* The uploader is on every page but the post-save view and a crashed run.
UploaderShown == screen \notin {"postsave", "exception"}

Upload ==
    /\ UploaderShown
    /\ \E n \in UploadNames, b \in Images :
          Commit(Run([Cur EXCEPT !.uploaded = Some([name |-> n, bytes |-> b])], NoEvent))

RemoveUpload ==
    /\ UploaderShown
    /\ uploaded # NONE
    /\ Commit(Run([Cur EXCEPT !.uploaded = NONE], NoEvent))

ClickEdit ==
    /\ screen \in {"matched_name", "matched_hash"}
    /\ Commit(Run(Cur, [kind |-> "edit", key |-> NONE, form |-> NONE]))

CancelEditing ==
    /\ screen = "edit"
    /\ Commit(Run(Cur, [kind |-> "cancel", key |-> NONE, form |-> NONE]))

\* The field values of a submission; the four free-text columns after
\* ARCHITECTURE are left as the form shows them.
FormInput(defaults, arch, ap, td, name, shape) ==
    [architecture |-> arch,
     occipital_condyles |-> Get(defaults, "OCCIPITAL CONDYLES"),
     mastoid_process |-> Get(defaults, "MASTOID PROCESS"),
     occipital_protuberance |-> Get(defaults, "OCCIPITAL PROTUBERANCE"),
     palatal_width |-> Get(defaults, "PALATAL WIDTH"),
     ap |-> ap, td |-> td, file_name |-> name, shape |-> shape]

\* The submit event of the create form (FILE NAME shows the upload's name)
\* and of the edit form of the row being edited.
CreateSubmission(arch, ap, td, shape) ==
    [kind |-> "submit", key |-> <<"create", NONE>>,
     form |-> FormInput(<<>>, arch, ap, td, uploaded[1].name, shape)]

EditSubmission(arch, ap, td, name, shape) ==
    [kind |-> "submit", key |-> <<"edit", editing_row_number>>,
     form |-> FormInput(editing_defaults, arch, ap, td, name, shape)]

SubmitCreate ==
    /\ screen = "create"
    /\ Len(store) < MaxRows
    /\ \E arch \in ArchInputs, r \in APTDInputs, shape \in ShapeInputs :
          Commit(Run(Cur, CreateSubmission(arch, r[1], r[2], shape)))

SubmitEdit ==
    /\ screen = "edit"
    /\ \E arch \in ArchInputs, r \in APTDInputs, name \in NameInputs, shape \in ShapeInputs :
          Commit(Run(Cur, EditSubmission(arch, r[1], r[2], name, shape)))

\* OK on the post-save view.  The uploader was not on that page: the run
\* after it finds the upload kept or dropped by the framework.
ClickOK ==
    /\ screen = "postsave"
    /\ \E kept \in BOOLEAN :
          Commit(Run([Cur EXCEPT !.uploaded = IF kept THEN @ ELSE NONE],
                     [kind |-> "ok", key |-> NONE, form |-> NONE]))

Next ==
    \/ Upload
    \/ RemoveUpload
    \/ ClickEdit
    \/ CancelEditing
    \/ SubmitCreate
    \/ SubmitEdit
    \/ ClickOK

Spec == Init /\ [][Next]_vars

(***************************************************************************)
(* The sheet edited outside the application: a header cell is changed, so  *)
(* that the next run finds existing_headers != HEADERS (line 87).           *)
(***************************************************************************)
EditedHeader == [HEADERS EXCEPT ![11] = "Shape"]

ExternalHeaderEdit ==
    /\ header = HEADERS
    /\ header' = EditedHeader
    /\ UNCHANGED <<store, uploaded, editing_row_number, editing_defaults,
                   postsave_pending, postsave_mode, postsave_row_number,
                   postsave_sl_no, screen, matched_row, shown_record, writes, error>>

NextExt ==
    \/ Next
    \/ ExternalHeaderEdit

SpecExt == Init /\ [][NextExt]_vars

(***************************************************************************)
(* Properties.                                                              *)
(***************************************************************************)
\* The last run resolved the upload against a non-empty record set.
Resolved ==
    /\ uploaded # NONE
    /\ store # <<>>
    /\ editing_row_number = NONE
    /\ ~postsave_pending
    /\ screen # "exception"

SameText(a, b) == Lower(Strip(a)) = Lower(Strip(b))

NameMatches == {i \in DOMAIN store : SameText(store[i]["FILE NAME"], uploaded[1].name)}

HashMatches ==
    {i \in DOMAIN store :
        SameText(store[i]["IMAGE HASH KEY"], compute_image_hash(uploaded[1].bytes))}

\* The page shows record i of the store as a match of kind view, with the
\* record's own sheet row as row reference.
ShowsRecord(view, i) ==
    /\ screen = view
    /\ matched_row = Some(i + 1)
    /\ shown_record = Some(store[i])

\* C1: resolution follows the precedence name, then hash, then no match:
\* with a record matching by FILE NAME (trimmed, case-insensitive) the page
\* shows the first such record whatever the hashes are; otherwise with a
\* record matching by IMAGE HASH KEY it shows the first such record;
\* otherwise it shows the create form.  The row reference is the record's
\* position + 2 (0-based), its own sheet row.
C1Precedence ==
    Resolved =>
        /\ NameMatches # {} =>
              \E i \in NameMatches :
                 /\ \A j \in NameMatches : i <= j
                 /\ ShowsRecord("matched_name", i)
        /\ (NameMatches = {} /\ HashMatches # {}) =>
              \E i \in HashMatches :
                 /\ \A j \in HashMatches : i <= j
                 /\ ShowsRecord("matched_hash", i)
        /\ (NameMatches = {} /\ HashMatches = {}) =>
              /\ screen = "create"
              /\ matched_row = NONE

\* Two records match the declared name: the first one is shown, as a match
\* by name, while another record carries the upload's hash.
C1Witness ==
    /\ Resolved
    /\ Cardinality(NameMatches) = 2
    /\ screen = "matched_name"
    /\ matched_row = Some(2)

\* C2 as stated: every record with a non-empty hash equal to the upload's
\* hash, and a FILE NAME that differs from the declared name, is the one a
\* match by fingerprint points at, whatever else the store holds.
C2Original ==
    Resolved =>
        \A i \in DOMAIN store :
            ( /\ store[i]["IMAGE HASH KEY"] # ""
              /\ i \in HashMatches
              /\ i \notin NameMatches )
            => ShowsRecord("matched_hash", i)

\* C2 amended: such a record is the one a match by fingerprint points at
\* when no record of the store matches the declared name and no earlier
\* record carries an equal hash.
C2Fingerprint ==
    Resolved =>
        \A i \in DOMAIN store :
            ( /\ store[i]["IMAGE HASH KEY"] # ""
              /\ i \in HashMatches
              /\ NameMatches = {}
              /\ \A j \in HashMatches : i <= j )
            => ShowsRecord("matched_hash", i)

\* A store of two records: the second is matched by fingerprint, its
\* stored hash differing from the computed one in case and padding or not.
C2Witness ==
    /\ Resolved
    /\ Len(store) = 2
    /\ NameMatches = {}
    /\ HashMatches = {2}
    /\ ShowsRecord("matched_hash", 2)

\* The SL NO a new record gets: the largest numeric SL NO plus one, "1"
\* when the store holds none.
IsNextSlNo(df, text) ==
    LET nums == {n \in NumRange : \E i \in DOMAIN df : df[i]["SL NO"] = ToString(n)}
    IN  IF nums = {} THEN text = "1"
        ELSE \E n \in nums : (\A m \in nums : m <= n) /\ text = ToString(n + 1)

RatioOf(ap, td) ==
    IF /\ ap # ""
       /\ td # ""
       /\ ParseFloat(ap) # NONE
       /\ ParseFloat(td) # NONE
       /\ ParseFloat(td) # Some(0)
    THEN FloatDivStr(ParseFloat(ap)[1], ParseFloat(td)[1])
    ELSE ""

\* C4: every row that reaches the sheet through append_row or update_row
\* (create, edit save, back-fill) carries the AP/TD recomputed from its own
\* AP and TD, by the same rule in both.
C4Recomputed ==
    \A k \in DOMAIN writes :
        writes[k].values["AP/TD"] = RatioOf(writes[k].values["AP"], writes[k].values["TD"])

\* A back-fill of a row whose stored AP/TD was "5" wrote "5.0".
C4Witness ==
    \E k \in DOMAIN writes :
        /\ writes[k].op = "backfill"
        /\ writes[k].values["AP"] = "10"
        /\ writes[k].values["AP/TD"] = "5.0"

\* C5 as stated: a non-empty IMAGE HASH KEY cell never changes.
C5Original ==
    [][ \A i \in DOMAIN store :
           store[i]["IMAGE HASH KEY"] # "" =>
              /\ i \in DOMAIN store'
              /\ store'[i]["IMAGE HASH KEY"] = store[i]["IMAGE HASH KEY"] ]_vars

\* C5 amended: an IMAGE HASH KEY cell that holds more than whitespace never
\* changes; a hash cell changes only by a back-fill of that row, which runs
\* only on an empty or whitespace-only cell and writes the upload's hash.
C5HashKept ==
    [][ \A i \in DOMAIN store :
           /\ i \in DOMAIN store'
           /\ Strip(store[i]["IMAGE HASH KEY"]) # "" =>
                 store'[i]["IMAGE HASH KEY"] = store[i]["IMAGE HASH KEY"]
           /\ store'[i]["IMAGE HASH KEY"] # store[i]["IMAGE HASH KEY"] =>
                 /\ Strip(store[i]["IMAGE HASH KEY"]) = ""
                 /\ writes' = <<[op |-> "backfill", row |-> i + 1, values |-> store'[i]]>>
                 /\ store'[i]["IMAGE HASH KEY"] = compute_image_hash(uploaded'[1].bytes)
      ]_vars

\* An edit of a record whose hash is set was saved, the hash still there.
C5Witness ==
    /\ Len(writes) = 1
    /\ writes[1].op = "update_row"
    /\ writes[1].values["IMAGE HASH KEY"] = " FFE0 "
    /\ store[writes[1].row - 1]["IMAGE HASH KEY"] = " FFE0 "

\* C6 as stated: the back-fill of a name-matched record whose hash cell is
\* empty is the one write of its interaction and changes the IMAGE HASH
\* KEY cell of the matched row only, which then holds the computed hash;
\* resolving again writes nothing.
C6Original ==
    [][ \A k \in DOMAIN writes' :
           ( /\ writes'[k].op = "backfill"
             /\ store[writes'[k].row - 1]["IMAGE HASH KEY"] = "" ) =>
              /\ Len(writes') = 1
              /\ (Run(Cur, NoEvent).writes)' = <<>>
              /\ Len(store') = Len(store)
              /\ \A j \in DOMAIN store :
                    j # writes'[k].row - 1 => store'[j] = store[j]
              /\ \A c \in Cols \ {"IMAGE HASH KEY"} :
                    store'[writes'[k].row - 1][c] = store[writes'[k].row - 1][c]
              /\ store'[writes'[k].row - 1]["IMAGE HASH KEY"] =
                    compute_image_hash(uploaded'[1].bytes)
      ]_vars

\* C7 as stated: no step removes a data row.
C7Original ==
    [][ Len(store') >= Len(store) ]_vars

\* AP and TD both present, TD parsing to 0 or one of them not a number.
BadNumbers == {<<"10", "0">>, <<"abc", "2">>, <<"10", "abc">>, <<" ", "2">>}

OnePresent == {<<"10", "">>, <<"", "2">>, <<"abc", "">>, <<"", "0">>, <<" ", "">>}

\* The session and the sheet of s are those of the current state.
Untouched(s) ==
    /\ s.store = store
    /\ s.header = header
    /\ s.writes = <<>>
    /\ s.editing_row_number = editing_row_number
    /\ s.editing_defaults = editing_defaults
    /\ s.postsave_pending = postsave_pending
    /\ s.postsave_mode = postsave_mode
    /\ s.postsave_row_number = postsave_row_number
    /\ s.postsave_sl_no = postsave_sl_no
    /\ s.screen = screen

\* C9: a submission with exactly one of AP and TD is refused with an error,
\* writes nothing and leaves sheet and session as they were, the form still
\* shown; a submission with both empty is saved with an empty AP/TD.
C9OnePresent ==
    /\ screen = "create" =>
          /\ \A r \in OnePresent :
                LET s == Run(Cur, CreateSubmission("rugged", r[1], r[2], "Oval"))
                IN  Untouched(s) /\ s.error = "validation"
          /\ LET s == Run(Cur, CreateSubmission("rugged", "", "", "Oval"))
             IN  /\ Len(s.store) = Len(store) + 1
                 /\ s.store[Len(s.store)]["AP/TD"] = ""
                 /\ s.error = ""
    /\ screen = "edit" =>
          /\ \A r \in OnePresent :
                LET s == Run(Cur, EditSubmission("rugged", r[1], r[2], "", "Oval"))
                IN  Untouched(s) /\ s.error = "validation"
          /\ LET s == Run(Cur, EditSubmission("rugged", "", "", "", "Oval"))
             IN  /\ s.store[editing_row_number[1] - 1]["AP/TD"] = ""
                 /\ s.store[editing_row_number[1] - 1]["AP"] = ""
                 /\ s.postsave_mode = Some("updated")
                 /\ s.error = ""

\* An edit submission was refused: the edit form is still there.
C9Witness ==
    /\ error = "validation"
    /\ screen = "edit"
    /\ editing_row_number # NONE
    /\ writes = <<>>

\* C10: the post-save flags agree with each other and exclude editing.
C10Session ==
    /\ (postsave_pending = FALSE) <=> (postsave_mode = NONE)
    /\ ~postsave_pending => (postsave_row_number = NONE /\ postsave_sl_no = NONE)
    /\ postsave_mode = Some("created") =>
          (postsave_sl_no # NONE /\ postsave_row_number = NONE)
    /\ postsave_mode = Some("updated") =>
          (postsave_row_number # NONE /\ postsave_sl_no = NONE)
    /\ postsave_mode \in {NONE, Some("created"), Some("updated")}
    /\ postsave_pending => editing_row_number = NONE

\* OK was clicked after a create: the flags are cleared again and the
\* created record is matched by name.
C10Witness ==
    /\ ~postsave_pending
    /\ postsave_mode = NONE
    /\ Len(store) = 2
    /\ store[2]["ARCHITECTURE OF THE SKULL"] = "rugged"
    /\ screen = "matched_name"

====
